---- MODULE Spec2Model ----
(***************************************************************************)
(* Order use cases of bch-dex (src/use-cases/order/index.js):              *)
(* createOrder, listOrders, takeOrder, ensureFunds and findOrderByHash.    *)
(* Every call is an asynchronous task.  A task runs atomically from one    *)
(* await to the next; the order store, the blockchain UTXO oracle and the  *)
(* wallet are shared between the tasks and with the outside world.         *)
(***************************************************************************)
EXTENDS Integers, Sequences, FiniteSets, TLC

(* ------------------------------- bounds -------------------------------- *)

\* number of calls (asynchronous tasks) of one run
NumTasks == 2

Tasks == 1..NumTasks

(* ------------------------------ constants ------------------------------ *)

\* const SATS_MARGIN = 5000
SATS_MARGIN == 5000

\* the messages of the errors the use cases throw
ErrNotString == "p2wdbHash must be a string"
ErrNotFound == "order not found"
ErrTaken == "order already taken"
ErrNoUtxo == "UTXO does not exist. Aborting."
ErrP2wdbFunds == "App wallet does not have funds for writing to the P2WDB."
ErrBchFunds == "App wallet does not control enough BCH to purchase the tokens."
ErrBuy == "Buy orders are not supported yet."
\* faults of the collaborators createOrder lets through
ErrValidation == "ValidationError"
ErrPersistence == "PersistenceError"

(* ------------------------------- strings ------------------------------- *)

\* buyOrSell is a string the code searches: a sequence of characters
Sell == <<"s", "e", "l", "l">>
Buy == <<"b", "u", "y">>
Swap == <<"s", "w", "a", "p">>

\* String.prototype.includes
Includes(s, sub) ==
  \E i \in 0..(Len(s) - Len(sub)) : SubSeq(s, i + 1, i + Len(sub)) = sub

DigitChars == <<"0", "1", "2", "3", "4", "5", "6", "7", "8", "9">>

IsDigit(c) == \E d \in 1..10 : DigitChars[d] = c

DigitVal(c) == (CHOOSE d \in 1..10 : DigitChars[d] = c) - 1

\* String(n) of a non-negative integer: its decimal digits
RECURSIVE NumToString(_)
NumToString(n) ==
  IF n < 10 THEN <<DigitChars[n + 1]>>
  ELSE Append(NumToString(n \div 10), DigitChars[(n % 10) + 1])

\* the value of the longest prefix of decimal digits of s, read left to right
RECURSIVE ParseDigits(_, _)
ParseDigits(s, acc) ==
  IF s = <<>> \/ ~IsDigit(Head(s)) THEN acc
  ELSE ParseDigits(Tail(s), acc * 10 + DigitVal(Head(s)))

\* parseInt(x) of a non-negative number: String(x), then its leading digits
ParseInt(n) == ParseDigits(NumToString(n), 0)

(* ------------------------------ JS values ------------------------------ *)

\* a field that is absent from an object
Undefined == "<undefined>"

\* !v of a string-or-undefined value
Falsy(v) == v \in {Undefined, ""}

\* the arguments callers hand to takeOrder and findOrderByHash
StrArg(s) == [type |-> "string", str |-> s]
NumArg == [type |-> "number", str |-> "42"]
NoArg == [type |-> "undefined", str |-> ""]

HashArgs == {StrArg("h1"), StrArg("h2"), StrArg(""), NumArg}

(* ----------------------------- order data ------------------------------ *)

Order(id, hash, bos, tokens, rate, status) ==
  [id |-> id, p2wdbHash |-> hash, utxoTxid |-> "abc", utxoVout |-> 0,
   buyOrSell |-> bos, numTokens |-> tokens, rateInSats |-> rate,
   orderStatus |-> status]

NoOrder == Order(0, "", <<>>, 0, 0, Undefined)

\* orderObj.data of the webhook payloads
PaySell == Order(0, "h1", Sell, 10, 100, Undefined)
PayBuy == Order(0, "h2", Buy, 10, 100, "taken")
PayBad == Order(0, "h2", Swap, 10, 100, Undefined)

Payloads == {PaySell, PayBuy, PayBad}

\* the order entities callers hand to ensureFunds
Entities == {PaySell, PayBuy}

\* the balances the wallet may hold
Balances == {4000, 6000}

\* the one output the orders are backed by
TheUtxo == <<"abc", 0>>

\* what the local database may hold when the use cases are constructed
InitStores ==
  { <<>>,
    <<Order(1, "h1", Sell, 10, 100, "posted")>>,
    <<Order(1, "h1", Sell, 10, 100, "taken")>>,
    <<Order(1, "h1", Sell, 10, 100, Undefined)>>,
    <<Order(1, "h1", Sell, 10, 100, "")>> }

(* -------------------------------- state -------------------------------- *)

VARIABLES
  store,      \* the Order collection of the local database, in insertion order
  utxoLive,   \* the unspent outputs of the blockchain
  balance,    \* the BCH balance of the app wallet, in sats
  task        \* the calls: task[t] is the state of call t

vars == <<store, utxoLive, balance, task>>

IdleTask ==
  [op |-> "idle", pc |-> "idle", arg |-> NoArg, order |-> NoOrder,
   calls |-> <<>>, result |-> "none", error |-> "none", listing |-> <<>>,
   utxoSeen |-> "none", wdbSeen |-> "none", balanceSeen |-> 0,
   rivals |-> {}]

Finished(t) == task[t].pc \in {"done", "failed"}
InFlight(t) == task[t].pc \notin {"idle", "done", "failed"}

\* calls are numbered in the order they are made
CanStart(t) ==
  /\ task[t].pc = "idle"
  /\ \A u \in Tasks : u < t => task[u].pc # "idle"

Init ==
  /\ store \in InitStores
  /\ utxoLive = {TheUtxo}
  /\ balance \in Balances
  /\ task = [t \in Tasks |-> IdleTask]

(* ---------------------------- collaborators ---------------------------- *)

\* adapters.bchjs.Blockchain.getTxOut(txid, vout): null for an output that is
\* spent or unknown
GetTxOut(txid, vout) == IF <<txid, vout>> \in utxoLive THEN "utxo" ELSE "null"

\* the filter left out: findOne({}) gives the first record of the collection
FindOne_NoFilter(h) == IF Len(store) = 0 THEN 0 ELSE 1

\* OrderModel.findOne({ p2wdbHash }): the first record with that hash, as its
\* place in the collection; 0 stands for null
FindOne(h) ==
  LET hits == {i \in 1..Len(store) : store[i].p2wdbHash = h}
  IN IF hits = {} THEN 0 ELSE CHOOSE i \in hits : \A j \in hits : i <= j

\* order.toObject(): the plain object of a document, _id included
ToObject(doc) ==
  [id |-> doc.id, p2wdbHash |-> doc.p2wdbHash, utxoTxid |-> doc.utxoTxid,
   utxoVout |-> doc.utxoVout, buyOrSell |-> doc.buyOrSell,
   numTokens |-> doc.numTokens, rateInSats |-> doc.rateInSats,
   orderStatus |-> doc.orderStatus]

\* orderEntity.validate(orderObj) accepts the payload (src/entities/order)
ValidOrder(data) ==
  /\ ~Falsy(data.p2wdbHash)
  /\ ~Falsy(data.utxoTxid)
  /\ data.utxoVout >= 0
  /\ data.buyOrSell \in {Sell, Buy}
  /\ data.numTokens > 0
  /\ data.rateInSats > 0

\* the entity orderEntity.validate(orderObj) returns for a payload it accepts
Validate(data) ==
  [id |-> 0, p2wdbHash |-> data.p2wdbHash, utxoTxid |-> data.utxoTxid,
   utxoVout |-> data.utxoVout, buyOrSell |-> data.buyOrSell,
   numTokens |-> data.numTokens, rateInSats |-> data.rateInSats,
   orderStatus |-> data.orderStatus]

(* ------------------------- decisions of the code ------------------------ *)

\* the check for the empty string left out
BadHash_TypeOnly(h) == h.type # "string"

\* findOrderByHash: typeof p2wdbHash !== 'string' || !p2wdbHash
BadHash(h) == h.type # "string" \/ Falsy(h.str)

\* the presence test left out: orderInfo.orderStatus !== 'posted'
AlreadyTaken_Strict(orderInfo) == orderInfo.orderStatus # "posted"

\* the status guard left out
AlreadyTaken_NoGuard(orderInfo) == FALSE

\* takeOrder: orderInfo.orderStatus && orderInfo.orderStatus !== 'posted'
AlreadyTaken(orderInfo) ==
  ~Falsy(orderInfo.orderStatus) /\ orderInfo.orderStatus # "posted"

\* the null check left out
UtxoIsNull_Never(utxoStatus) == FALSE

\* the null check inverted
UtxoIsNull_Inverted(utxoStatus) == utxoStatus # "null"

\* createOrder and takeOrder: utxoStatus === null
UtxoIsNull(utxoStatus) == utxoStatus = "null"

\* 'posted' only as a default: a status of the payload is kept
MarkPosted_IfAbsent(data) ==
  IF Falsy(data.orderStatus) THEN [data EXCEPT !.orderStatus = "posted"] ELSE data

\* the status of the payload kept
MarkPosted_Keep(data) == data

\* createOrder: orderObj.data.orderStatus = 'posted'
MarkPosted(data) == [data EXCEPT !.orderStatus = "posted"]

\* any non-empty buyOrSell taken for a sell order
IsSellOrder_AnyString(orderEntity) == Len(orderEntity.buyOrSell) > 0

\* ensureFunds: orderEntity.buyOrSell.includes('sell')
IsSellOrder(orderEntity) == Includes(orderEntity.buyOrSell, Sell)

\* ensureFunds: satsNeeded = numTokens * parseInt(rateInSats)
SatsNeeded(orderEntity) ==
  orderEntity.numTokens * ParseInt(orderEntity.rateInSats)

\* the margin left out: satsNeeded > balance
NotEnoughBch_NoMargin(satsNeeded, bal) == satsNeeded > bal

\* the comparison left out
NotEnoughBch_Never(satsNeeded, bal) == FALSE

\* the comparison off by one: >= for >
NotEnoughBch_Geq(satsNeeded, bal) == satsNeeded + SATS_MARGIN >= bal

\* ensureFunds: satsNeeded + SATS_MARGIN > balance
NotEnoughBch(satsNeeded, bal) == satsNeeded + SATS_MARGIN > bal

(* ------------------------------ task steps ------------------------------ *)

Throw(r, msg) == [r EXCEPT !.pc = "failed", !.error = msg]
Return(r, value) == [r EXCEPT !.pc = "done", !.result = value]
Await(r, call) == [r EXCEPT !.pc = call, !.calls = Append(@, call)]
Call(r, call) == [r EXCEPT !.calls = Append(@, call)]

\* findOrderByHash up to its first await
FindOrderByHashBegin(r, h) ==
  IF BadHash(h) THEN Throw(r, ErrNotString) ELSE Await(r, "findOne")

\* ensureFunds up to its first await
EnsureFundsBegin(r) == Await(r, "checkForSufficientFunds")

\* the takeOrder calls on the same hash that are under way
RivalsOf(t, h) ==
  {u \in Tasks \ {t} :
     task[u].op = "takeOrder" /\ InFlight(u) /\ task[u].arg = h}

(* createOrder *)

CreateOrderStart(t) ==
  /\ CanStart(t)
  /\ \E p \in Payloads :
       task' = [task EXCEPT ![t] =
                  Await([IdleTask EXCEPT !.op = "createOrder", !.order = p],
                        "getTxOut")]
  /\ UNCHANGED <<store, utxoLive, balance>>

CreateOrderGetTxOut(t) ==
  /\ task[t].op = "createOrder"
  /\ task[t].pc = "getTxOut"
  /\ LET r == task[t]
         utxoStatus == GetTxOut(r.order.utxoTxid, r.order.utxoVout)
         seen == [r EXCEPT !.utxoSeen = utxoStatus]
         data == MarkPosted(r.order)
         checked == Call([seen EXCEPT !.order = data], "validate")
     IN task' = [task EXCEPT ![t] =
                   IF UtxoIsNull(utxoStatus) THEN Return(seen, "false")
                   ELSE IF ~ValidOrder(data) THEN Throw(checked, ErrValidation)
                   ELSE Await([checked EXCEPT !.order = Validate(data)], "save")]
  /\ UNCHANGED <<store, utxoLive, balance>>

\* createOrder answering false to a fault of save instead of letting it through
CreateOrderSave_Swallow(t) ==
  /\ task[t].op = "createOrder"
  /\ task[t].pc = "save"
  /\ \E saved \in BOOLEAN :
       IF saved
       THEN /\ store' = Append(store, [task[t].order EXCEPT !.id = Len(store) + 1])
            /\ task' = [task EXCEPT ![t] = Return(@, "true")]
       ELSE /\ store' = store
            /\ task' = [task EXCEPT ![t] = Return(@, "false")]
  /\ UNCHANGED <<utxoLive, balance>>

\* createOrder replacing the record that has the p2wdbHash of the new order
CreateOrderSave_Upsert(t) ==
  /\ task[t].op = "createOrder"
  /\ task[t].pc = "save"
  /\ \E saved \in BOOLEAN :
       IF saved
       THEN /\ store' =
                 IF FindOne(task[t].order.p2wdbHash) = 0
                 THEN Append(store, [task[t].order EXCEPT !.id = Len(store) + 1])
                 ELSE [store EXCEPT ![FindOne(task[t].order.p2wdbHash)] =
                         [task[t].order EXCEPT !.id = FindOne(task[t].order.p2wdbHash)]]
            /\ task' = [task EXCEPT ![t] = Return(@, "true")]
       ELSE /\ store' = store
            /\ task' = [task EXCEPT ![t] = Throw(@, ErrPersistence)]
  /\ UNCHANGED <<utxoLive, balance>>

CreateOrderSave(t) ==
  /\ task[t].op = "createOrder"
  /\ task[t].pc = "save"
  /\ \E saved \in BOOLEAN :
       IF saved
       THEN /\ store' = Append(store, [task[t].order EXCEPT !.id = Len(store) + 1])
            /\ task' = [task EXCEPT ![t] = Return(@, "true")]
       ELSE /\ store' = store
            /\ task' = [task EXCEPT ![t] = Throw(@, ErrPersistence)]
  /\ UNCHANGED <<utxoLive, balance>>

(* listOrders *)

ListOrdersStart(t) ==
  /\ CanStart(t)
  /\ task' = [task EXCEPT ![t] =
                Await([IdleTask EXCEPT !.op = "listOrders"], "find")]
  /\ UNCHANGED <<store, utxoLive, balance>>

\* listOrders with a filter: only the 'posted' records
ListOrdersFind_PostedOnly(t) ==
  /\ task[t].op = "listOrders"
  /\ task[t].pc = "find"
  /\ task' = [task EXCEPT ![t] =
                Return([@ EXCEPT !.listing =
                          SelectSeq(store, LAMBDA o : o.orderStatus = "posted")],
                       "orders")]
  /\ UNCHANGED <<store, utxoLive, balance>>

ListOrdersFind(t) ==
  /\ task[t].op = "listOrders"
  /\ task[t].pc = "find"
  /\ task' = [task EXCEPT ![t] = Return([@ EXCEPT !.listing = store], "orders")]
  /\ UNCHANGED <<store, utxoLive, balance>>

(* findOrderByHash *)

FindOrderByHashStart(t) ==
  /\ CanStart(t)
  /\ \E h \in HashArgs :
       task' = [task EXCEPT ![t] =
                  FindOrderByHashBegin(
                    [IdleTask EXCEPT !.op = "findOrderByHash", !.arg = h], h)]
  /\ UNCHANGED <<store, utxoLive, balance>>

FindOrderByHashFindOne(t) ==
  /\ task[t].op = "findOrderByHash"
  /\ task[t].pc = "findOne"
  /\ LET i == FindOne(task[t].arg.str)
     IN task' = [task EXCEPT ![t] =
                   IF i = 0 THEN Throw(@, ErrNotFound)
                   ELSE Return([@ EXCEPT !.order = ToObject(store[i])], "order")]
  /\ UNCHANGED <<store, utxoLive, balance>>

(* takeOrder *)

TakeOrderStart(t) ==
  /\ CanStart(t)
  /\ \E h \in HashArgs :
       LET begun == FindOrderByHashBegin(
                      [IdleTask EXCEPT !.op = "takeOrder", !.arg = h], h)
           rivals == IF begun.pc = "failed" THEN {} ELSE RivalsOf(t, h)
       IN task' = [u \in Tasks |->
                     IF u = t THEN [begun EXCEPT !.rivals = rivals]
                     ELSE IF u \in rivals
                          THEN [task[u] EXCEPT !.rivals = @ \cup {t}]
                          ELSE task[u]]
  /\ UNCHANGED <<store, utxoLive, balance>>

\* findOrderByHash returns to takeOrder, which checks the status and asks the
\* oracle
TakeOrderFindOne(t) ==
  /\ task[t].op = "takeOrder"
  /\ task[t].pc = "findOne"
  /\ LET i == FindOne(task[t].arg.str)
         orderInfo == ToObject(store[i])
     IN task' = [task EXCEPT ![t] =
                   IF i = 0 THEN Throw(@, ErrNotFound)
                   ELSE IF AlreadyTaken(orderInfo)
                        THEN Throw([@ EXCEPT !.order = orderInfo], ErrTaken)
                        ELSE Await([@ EXCEPT !.order = orderInfo], "getTxOut")]
  /\ UNCHANGED <<store, utxoLive, balance>>

TakeOrderGetTxOut(t) ==
  /\ task[t].op = "takeOrder"
  /\ task[t].pc = "getTxOut"
  /\ LET r == task[t]
         utxoStatus == GetTxOut(r.order.utxoTxid, r.order.utxoVout)
         seen == [r EXCEPT !.utxoSeen = utxoStatus]
     IN task' = [task EXCEPT ![t] =
                   IF UtxoIsNull(utxoStatus) THEN Throw(seen, ErrNoUtxo)
                   ELSE EnsureFundsBegin(seen)]
  /\ UNCHANGED <<store, utxoLive, balance>>

\* takeOrder with a commit: the record it read is marked 'taken' on return
TakeOrderGeneratePartialTx_Commit(t) ==
  /\ task[t].op = "takeOrder"
  /\ task[t].pc = "generatePartialTx"
  /\ task' = [task EXCEPT ![t] = Return(@, "partialTx")]
  /\ store' = [i \in 1..Len(store) |->
                IF store[i].id = task[t].order.id
                THEN [store[i] EXCEPT !.orderStatus = "taken"]
                ELSE store[i]]
  /\ UNCHANGED <<utxoLive, balance>>

TakeOrderGeneratePartialTx(t) ==
  /\ task[t].op = "takeOrder"
  /\ task[t].pc = "generatePartialTx"
  /\ task' = [task EXCEPT ![t] = Return(@, "partialTx")]
  /\ UNCHANGED <<store, utxoLive, balance>>

(* ensureFunds, called by takeOrder or directly *)

EnsureFundsStart(t) ==
  /\ CanStart(t)
  /\ \E e \in Entities :
       task' = [task EXCEPT ![t] =
                  EnsureFundsBegin(
                    [IdleTask EXCEPT !.op = "ensureFunds", !.order = e])]
  /\ UNCHANGED <<store, utxoLive, balance>>

\* ensureFunds looking at buyOrSell before the outcome of the fee check
EnsureFundsCheckP2wdb_BuyFirst(t) ==
  /\ task[t].op \in {"ensureFunds", "takeOrder"}
  /\ task[t].pc = "checkForSufficientFunds"
  /\ \E canWriteToP2WDB \in BOOLEAN :
       LET seen == [task[t] EXCEPT
                      !.wdbSeen = IF canWriteToP2WDB THEN "true" ELSE "false"]
       IN task' = [task EXCEPT ![t] =
                     IF ~IsSellOrder(seen.order) THEN Throw(seen, ErrBuy)
                     ELSE IF ~canWriteToP2WDB THEN Throw(seen, ErrP2wdbFunds)
                     ELSE Await(seen, "getBalance")]
  /\ UNCHANGED <<store, utxoLive, balance>>

EnsureFundsCheckP2wdb(t) ==
  /\ task[t].op \in {"ensureFunds", "takeOrder"}
  /\ task[t].pc = "checkForSufficientFunds"
  /\ \E canWriteToP2WDB \in BOOLEAN :
       LET seen == [task[t] EXCEPT
                      !.wdbSeen = IF canWriteToP2WDB THEN "true" ELSE "false"]
       IN task' = [task EXCEPT ![t] =
                     IF ~canWriteToP2WDB THEN Throw(seen, ErrP2wdbFunds)
                     ELSE IF IsSellOrder(seen.order)
                          THEN Await(seen, "getBalance")
                          ELSE Throw(seen, ErrBuy)]
  /\ UNCHANGED <<store, utxoLive, balance>>

\* ensureFunds returns true; takeOrder goes on to the wallet
EnsureFundsGetBalance(t) ==
  /\ task[t].op \in {"ensureFunds", "takeOrder"}
  /\ task[t].pc = "getBalance"
  /\ LET seen == [task[t] EXCEPT !.balanceSeen = balance]
     IN task' = [task EXCEPT ![t] =
                   IF NotEnoughBch(SatsNeeded(seen.order), balance)
                   THEN Throw(seen, ErrBchFunds)
                   ELSE IF seen.op = "ensureFunds" THEN Return(seen, "true")
                   ELSE Await(Call(seen, "utxoStore"), "generatePartialTx")]
  /\ UNCHANGED <<store, utxoLive, balance>>

(* the outside world *)

\* somebody spends the output that backs the orders
SpendUtxo ==
  /\ TheUtxo \in utxoLive
  /\ utxoLive' = utxoLive \ {TheUtxo}
  /\ UNCHANGED <<store, balance, task>>

\* a transaction outside the engine changes the balance of the wallet
ChangeBalance ==
  /\ \E b \in Balances \ {balance} : balance' = b
  /\ UNCHANGED <<store, utxoLive, task>>

Next ==
  \/ \E t \in Tasks : CreateOrderStart(t)
  \/ \E t \in Tasks : CreateOrderGetTxOut(t)
  \/ \E t \in Tasks : CreateOrderSave(t)
  \/ \E t \in Tasks : ListOrdersStart(t)
  \/ \E t \in Tasks : ListOrdersFind(t)
  \/ \E t \in Tasks : FindOrderByHashStart(t)
  \/ \E t \in Tasks : FindOrderByHashFindOne(t)
  \/ \E t \in Tasks : TakeOrderStart(t)
  \/ \E t \in Tasks : TakeOrderFindOne(t)
  \/ \E t \in Tasks : TakeOrderGetTxOut(t)
  \/ \E t \in Tasks : TakeOrderGeneratePartialTx(t)
  \/ \E t \in Tasks : EnsureFundsStart(t)
  \/ \E t \in Tasks : EnsureFundsCheckP2wdb(t)
  \/ \E t \in Tasks : EnsureFundsGetBalance(t)
  \/ SpendUtxo
  \/ ChangeBalance

Spec == Init /\ [][Next]_vars

(* -------------------------------- claims ------------------------------- *)

\* the output an order is backed by
Utxo(order) == <<order.utxoTxid, order.utxoVout>>

\* the step in which takeOrder call t returns its partial transaction
ReturnsTx(t) ==
  /\ task[t].op = "takeOrder"
  /\ task[t].result # "partialTx"
  /\ task'[t].result = "partialTx"

\* C1: of N >= 2 concurrent takeOrder calls on the same hash whose record is
\* 'posted', with the UTXO live and the wallet solvent at every check, exactly
\* one returns a partial transaction and the others fail with 'order already
\* taken'.
C1_ExactlyOneTakerSucceeds ==
  \A t \in Tasks :
    LET group == {t} \cup task[t].rivals
    IN ( /\ task[t].op = "takeOrder"
         /\ task[t].rivals # {}
         /\ \A u \in group : Finished(u)
         /\ \A u \in group : task[u].order.orderStatus = "posted"
         /\ \A u \in group :
              task[u].error \notin {ErrNoUtxo, ErrP2wdbFunds, ErrBchFunds, ErrBuy} )
       => /\ Cardinality({u \in group : task[u].result = "partialTx"}) = 1
          /\ \A u \in group :
               task[u].result # "partialTx" => task[u].error = ErrTaken

\* C2: a takeOrder call that reads a record whose orderStatus is 'taken' fails
\* with 'order already taken' and has made no call but the lookup: no getTxOut,
\* no P2WDB funds check, no balance read, no UTXO snapshot, no
\* generatePartialTx; so does every repetition of the call.
C2_TakenOrderRejected ==
  \A t \in Tasks :
    (task[t].op = "takeOrder" /\ task[t].order.orderStatus = "taken")
    => /\ task[t].pc = "failed"
       /\ task[t].error = ErrTaken
       /\ task[t].result = "none"
       /\ task[t].calls = <<"findOne">>

C2_Witness ==
  \E t, u \in Tasks :
    /\ t # u
    /\ task[t].op = "takeOrder" /\ task[u].op = "takeOrder"
    /\ task[t].arg = task[u].arg
    /\ task[t].order.orderStatus = "taken" /\ task[u].order.orderStatus = "taken"
    /\ task[t].error = ErrTaken /\ task[u].error = ErrTaken

\* C3 as claimed: no createOrder call persists a record whose backing UTXO is
\* spent at the moment of persisting, and no takeOrder call returns a partial
\* transaction for an order whose backing UTXO is spent at the moment of
\* returning.
C3Step ==
  /\ Len(store') > Len(store) => Utxo(store'[Len(store')]) \in utxoLive
  /\ \A t \in Tasks : ReturnsTx(t) => Utxo(task[t].order) \in utxoLive

C3_NeverActsOnSpentUtxo == [][C3Step]_vars

\* C3 as amended: a createOrder call gets to save, and a takeOrder call
\* returns a partial transaction, only after the oracle answered non-null to
\* that call's own getTxOut query; the UTXO may be spent later.
C3_ActsOnlyAfterLiveAnswer ==
  \A t \in Tasks :
    /\ ( /\ task[t].op = "createOrder"
         /\ \/ task[t].pc = "save"
            \/ task[t].result = "true"
            \/ task[t].error = ErrPersistence )
       => task[t].utxoSeen = "utxo"
    /\ (task[t].op = "takeOrder" /\ task[t].result = "partialTx")
       => task[t].utxoSeen = "utxo"

C3_Witness ==
  /\ utxoLive = {}
  /\ \E t \in Tasks :
       /\ task[t].op = "createOrder"
       /\ task[t].result = "true"
       /\ task[t].utxoSeen = "utxo"
  /\ \E t \in Tasks :
       /\ task[t].op = "takeOrder"
       /\ task[t].result = "partialTx"
       /\ task[t].utxoSeen = "utxo"

\* C4: a createOrder call with a valid payload whose UTXO the oracle reports
\* live, and whose save does not fault, adds exactly one record to the store,
\* with orderStatus 'posted' and the fields of the payload, and returns true;
\* no other step of a createOrder call changes the store.
C4Step ==
  \A t \in Tasks :
    (task'[t].op = "createOrder" /\ task'[t] # task[t]) =>
      LET r == task'[t]
          n == Len(store)
      IN IF /\ r.pc \in {"done", "failed"}
            /\ r.utxoSeen = "utxo"
            /\ ValidOrder(r.order)
            /\ r.error # ErrPersistence
         THEN /\ r.pc = "done"
              /\ r.result = "true"
              /\ Len(store') = n + 1
              /\ SubSeq(store', 1, n) = store
              /\ store'[n + 1].orderStatus = "posted"
              /\ [store'[n + 1] EXCEPT !.id = 0, !.orderStatus = Undefined]
                   = [r.order EXCEPT !.id = 0, !.orderStatus = Undefined]
         ELSE store' = store

C4_CreatePersistsOnePosted == [][C4Step]_vars

C4_Witness ==
  \E t \in Tasks :
    /\ task[t].op = "createOrder"
    /\ task[t].result = "true"
    /\ task[t].utxoSeen = "utxo"
    /\ Len(store) > 0
    /\ store[Len(store)].orderStatus = "posted"
    /\ store[Len(store)].p2wdbHash = task[t].order.p2wdbHash

\* C5: when the oracle answers null to createOrder's query, the call leaves
\* the store unchanged, calls neither the validator nor save, and returns
\* false without an error; it does nothing afterwards.
C5Step ==
  \A t \in Tasks :
    /\ ( /\ task[t].op = "createOrder"
         /\ task[t].pc = "getTxOut"
         /\ task'[t] # task[t]
         /\ Utxo(task[t].order) \notin utxoLive )
       => /\ store' = store
          /\ task'[t].pc = "done"
          /\ task'[t].result = "false"
          /\ task'[t].error = "none"
          /\ task'[t].calls = <<"getTxOut">>
    /\ (task[t].op = "createOrder" /\ task[t].result = "false")
       => task'[t] = task[t]

C5_SpentUtxoNotCreated == [][C5Step]_vars

C5_Witness ==
  \E t \in Tasks :
    /\ task[t].op = "createOrder"
    /\ task[t].pc = "done"
    /\ task[t].result = "false"
    /\ task[t].utxoSeen = "null"
    /\ ValidOrder(MarkPosted(task[t].order))

\* C6: when the oracle answers null to takeOrder's re-check, the call fails
\* with 'UTXO does not exist' and has called neither the P2WDB funds check nor
\* getBalance, read no UTXO snapshot and not called generatePartialTx.
C6_StaleOrderRejected ==
  \A t \in Tasks :
    (task[t].op = "takeOrder" /\ task[t].utxoSeen = "null")
    => /\ task[t].pc = "failed"
       /\ task[t].error = ErrNoUtxo
       /\ task[t].result = "none"
       /\ task[t].calls = <<"findOne", "getTxOut">>

C6_Witness ==
  \E t \in Tasks :
    /\ task[t].op = "takeOrder"
    /\ task[t].order.orderStatus = "posted"
    /\ task[t].utxoSeen = "null"
    /\ task[t].error = ErrNoUtxo

\* C7: for a sell order whose P2WDB fee check passed, with satsNeeded =
\* numTokens * rateInSats and balance the value getBalance returned,
\* ensureFunds fails with the not-enough-BCH error when satsNeeded + 5000 >
\* balance and passes when satsNeeded + 5000 <= balance.
BalanceRead(t) ==
  /\ task[t].op \in {"ensureFunds", "takeOrder"}
  /\ task[t].order.buyOrSell = Sell
  /\ task[t].wdbSeen = "true"
  /\ task[t].pc \notin {"checkForSufficientFunds", "getBalance"}

C7_FundsBoundary ==
  \A t \in Tasks :
    BalanceRead(t) =>
      LET satsNeeded == task[t].order.numTokens * task[t].order.rateInSats
      IN IF satsNeeded + 5000 > task[t].balanceSeen
         THEN task[t].pc = "failed" /\ task[t].error = ErrBchFunds
         ELSE /\ task[t].error = "none"
              /\ task[t].op = "ensureFunds"
                   => task[t].pc = "done" /\ task[t].result = "true"
              /\ task[t].op = "takeOrder"
                   => task[t].pc \in {"generatePartialTx", "done"}

C7_Witness ==
  \E t, u \in Tasks :
    /\ BalanceRead(t) /\ BalanceRead(u)
    /\ task[t].op = "ensureFunds" /\ task[u].op = "ensureFunds"
    /\ task[t].balanceSeen = 6000 /\ task[t].result = "true"
    /\ task[u].balanceSeen = 4000 /\ task[u].error = ErrBchFunds

\* C8 as claimed: for an order whose buyOrSell contains 'buy', ensureFunds
\* always fails with 'Buy orders are not supported yet', whatever the balance
\* and whatever the outcome of the P2WDB fee check.
FeeCheckedBuy(t) ==
  /\ task[t].op \in {"ensureFunds", "takeOrder"}
  /\ Includes(task[t].order.buyOrSell, Buy)
  /\ task[t].wdbSeen # "none"

C8_BuyAlwaysUnsupported ==
  \A t \in Tasks :
    FeeCheckedBuy(t) => task[t].pc = "failed" /\ task[t].error = ErrBuy

\* C8 as amended: for a 'buy' order ensureFunds always fails, without reading
\* the balance: with 'Buy orders are not supported yet' when the P2WDB fee
\* check passes, and with the P2WDB funds error when it does not.
C8_BuyFailsAfterFeeCheck ==
  \A t \in Tasks :
    FeeCheckedBuy(t) =>
      /\ task[t].pc = "failed"
      /\ task[t].result = "none"
      /\ \A i \in 1..Len(task[t].calls) : task[t].calls[i] # "getBalance"
      /\ task[t].wdbSeen = "true" => task[t].error = ErrBuy
      /\ task[t].wdbSeen = "false" => task[t].error = ErrP2wdbFunds

C8_Witness ==
  \E t, u \in Tasks :
    /\ FeeCheckedBuy(t) /\ FeeCheckedBuy(u)
    /\ task[t].wdbSeen = "true" /\ task[t].error = ErrBuy
    /\ task[u].wdbSeen = "false" /\ task[u].error = ErrP2wdbFunds

\* C9: no step of a takeOrder call, failing or succeeding, changes the store;
\* the record stays 'posted' after a successful takeOrder.
C9Step ==
  \A t \in Tasks :
    (task'[t].op = "takeOrder" /\ task'[t] # task[t]) => store' = store

C9_TakeOrderWritesNothing == [][C9Step]_vars

C9_Witness ==
  \E t \in Tasks :
    /\ task[t].op = "takeOrder"
    /\ task[t].result = "partialTx"
    /\ \E i \in 1..Len(store) :
         store[i].id = task[t].order.id /\ store[i].orderStatus = "posted"

\* C10: the orderStatus of a record changes only from 'posted' to 'taken' and
\* only in the step in which a takeOrder call for that record succeeds, and
\* every successful takeOrder performs that change.
C10Step ==
  /\ \A i \in 1..Len(store) :
       (i <= Len(store') /\ store'[i].orderStatus # store[i].orderStatus)
       => /\ store[i].orderStatus = "posted"
          /\ store'[i].orderStatus = "taken"
          /\ \E t \in Tasks : ReturnsTx(t) /\ task[t].order.id = store[i].id
  /\ \A t \in Tasks :
       ReturnsTx(t) =>
         \E i \in 1..Len(store') :
           store'[i].id = task[t].order.id /\ store'[i].orderStatus = "taken"

C10_TakenOnlyByTakeSuccess == [][C10Step]_vars

\* the places of the records with hash h
RecordsWithHash(h) == {i \in 1..Len(store) : store[i].p2wdbHash = h}

\* the fields of an order that createOrder is given and findOrderByHash returns
SameOrderData(a, b) ==
  /\ a.p2wdbHash = b.p2wdbHash
  /\ a.utxoTxid = b.utxoTxid
  /\ a.utxoVout = b.utxoVout
  /\ a.buyOrSell = b.buyOrSell
  /\ a.numTokens = b.numTokens
  /\ a.rateInSats = b.rateInSats

\* findOrderByHash call t looks up the hash of an order that createOrder call
\* u has saved
LooksUpCreated(t, u) ==
  /\ task[t].op = "findOrderByHash"
  /\ task[t].pc = "findOne"
  /\ task'[t] # task[t]
  /\ task[u].op = "createOrder"
  /\ task[u].result = "true"
  /\ task[t].arg.str = task[u].order.p2wdbHash

RoundTrip(t, u) ==
  /\ task'[t].pc = "done"
  /\ task'[t].result = "order"
  /\ SameOrderData(task'[t].order, task[u].order)
  /\ task'[t].order.orderStatus = "posted"

\* C11 as claimed: once createOrder has returned true, findOrderByHash with the
\* p2wdbHash of the created order returns a record with the utxoTxid,
\* utxoVout, buyOrSell, numTokens and rateInSats of that order and orderStatus
\* 'posted'.
C11Step_Any ==
  \A t, u \in Tasks : LooksUpCreated(t, u) => RoundTrip(t, u)

C11Step ==
  \A t, u \in Tasks :
    ( /\ LooksUpCreated(t, u)
      /\ Cardinality(RecordsWithHash(task[t].arg.str)) = 1 )
    => RoundTrip(t, u)

C12Step ==
  \A t \in Tasks :
    (task'[t].op = "findOrderByHash" /\ task'[t] # task[t]) =>
      LET h == task'[t].arg
          r == task'[t]
      IN /\ store' = store
         /\ task[t].pc = "idle" =>
              IF h.type # "string" \/ h.str = ""
              THEN r.pc = "failed" /\ r.error = ErrNotString /\ r.calls = <<>>
              ELSE r.pc = "findOne" /\ r.error = "none"
         /\ task[t].pc = "findOne" =>
              IF \A i \in 1..Len(store) : store[i].p2wdbHash # h.str
              THEN r.pc = "failed" /\ r.error = ErrNotFound /\ r.result = "none"
              ELSE /\ r.pc = "done" /\ r.result = "order" /\ r.error = "none"
                   /\ r.order.p2wdbHash = h.str
                   /\ \E i \in 1..Len(store) : store[i] = r.order

C12_FindOrderByHash == [][C12Step]_vars

C12_Witness ==
  \E t, u \in Tasks :
    /\ task[t].op = "findOrderByHash" /\ task[u].op = "findOrderByHash"
    /\ task[t].arg = StrArg("")
    /\ task[t].error = ErrNotString /\ task[t].calls = <<>>
    /\ task[u].arg = StrArg("h2")
    /\ task[u].error = ErrNotFound
    /\ Len(store) > 0

\* C13: listOrders returns all the records the store holds when it is read,
\* whatever their orderStatus, and no step of it changes the store.
C13Step ==
  \A t \in Tasks :
    (task'[t].op = "listOrders" /\ task'[t] # task[t]) =>
      /\ store' = store
      /\ task[t].pc = "find" =>
           /\ task'[t].pc = "done"
           /\ task'[t].result = "orders"
           /\ task'[t].listing = store

C13_ListOrdersReturnsAll == [][C13Step]_vars

C13_Witness ==
  \E t \in Tasks :
    /\ task[t].op = "listOrders"
    /\ task[t].result = "orders"
    /\ Len(task[t].listing) = 2
    /\ task[t].listing[1].orderStatus = "taken"
    /\ task[t].listing[2].orderStatus = "posted"

\* the collaborator steps of takeOrder, in the order of the code
TakeOrderCalls ==
  <<"findOne", "getTxOut", "checkForSufficientFunds", "getBalance",
    "utxoStore", "generatePartialTx">>

IsPrefix(a, b) == Len(a) <= Len(b) /\ SubSeq(b, 1, Len(a)) = a

\* C14: the collaborator calls of a takeOrder call are a prefix of: store
\* lookup, UTXO query, P2WDB fee check, balance read, UTXO snapshot,
\* generatePartialTx (each at most once); a failed call carries the error of
\* the last step it made and has made no later step; generatePartialTx is
\* called only when the status guard, the UTXO query, the fee check and the
\* balance check of that call have passed.
C14_TakeOrderStepOrder ==
  \A t \in Tasks :
    task[t].op = "takeOrder" =>
      LET r == task[t]
          n == Len(r.calls)
      IN /\ IsPrefix(r.calls, TakeOrderCalls)
         /\ n # 5
         /\ InFlight(t) => r.pc = r.calls[n] /\ r.error = "none"
         /\ r.pc = "failed" =>
              /\ r.result = "none"
              /\ \/ r.error = ErrNotString /\ n = 0
                 \/ r.error \in {ErrNotFound, ErrTaken} /\ n = 1
                 \/ r.error = ErrNoUtxo /\ n = 2 /\ r.utxoSeen = "null"
                 \/ r.error = ErrP2wdbFunds /\ n = 3 /\ r.wdbSeen = "false"
                 \/ r.error = ErrBuy /\ n = 3 /\ r.wdbSeen = "true"
                 \/ r.error = ErrBchFunds /\ n = 4
         /\ r.pc = "done" => r.result = "partialTx" /\ r.error = "none" /\ n = 6
         /\ n = 6 =>
              /\ r.order.orderStatus \in {"posted", Undefined, ""}
              /\ r.utxoSeen = "utxo"
              /\ r.wdbSeen = "true"
              /\ r.order.buyOrSell = Sell
              /\ r.order.numTokens * r.order.rateInSats + 5000 <= r.balanceSeen

C14_Witness ==
  \E t, u \in Tasks :
    /\ task[t].op = "takeOrder" /\ task[t].pc = "done"
    /\ task[t].calls = TakeOrderCalls
    /\ task[u].op = "takeOrder" /\ task[u].error = ErrBchFunds
    /\ Len(task[u].calls) = 4

\* C15 as claimed: whenever takeOrder returns a partial transaction,
\* numTokens * rateInSats + 5000 <= the balance the wallet holds at that
\* moment, the balance being free to change between the steps of the call.
C15Step ==
  \A t \in Tasks :
    ReturnsTx(t) =>
      task[t].order.numTokens * task[t].order.rateInSats + 5000 <= balance

C15_FundedAtReturn == [][C15Step]_vars

\* C15 as amended: whenever takeOrder returns a partial transaction,
\* numTokens * rateInSats + 5000 <= the balance that call's getBalance
\* returned; the balance may have changed since.
C15_FundedAtBalanceRead ==
  \A t \in Tasks :
    (task[t].op = "takeOrder" /\ task[t].result = "partialTx") =>
      /\ task[t].wdbSeen = "true"
      /\ task[t].order.numTokens * task[t].order.rateInSats + 5000
           <= task[t].balanceSeen

C15_Witness ==
  \E t \in Tasks :
    /\ task[t].op = "takeOrder"
    /\ task[t].result = "partialTx"
    /\ task[t].balanceSeen = 6000
    /\ balance = 4000

\* C16: the status guard of takeOrder fails the call with 'order already
\* taken' exactly when the orderStatus of the record it loaded is present,
\* non-empty and not 'posted'; with 'posted', no status or the empty status
\* the call goes on to the UTXO query.
C16Step ==
  \A t \in Tasks :
    ( /\ task[t].op = "takeOrder"
      /\ task[t].pc = "findOne"
      /\ task'[t].pc # "findOne"
      /\ RecordsWithHash(task[t].arg.str) # {} )
    => LET status == task'[t].order.orderStatus
       IN /\ \E i \in RecordsWithHash(task[t].arg.str) :
               store[i] = task'[t].order
          /\ IF status \notin {Undefined, ""} /\ status # "posted"
             THEN task'[t].pc = "failed" /\ task'[t].error = ErrTaken
             ELSE /\ task'[t].pc = "getTxOut"
                  /\ task'[t].error = "none"
                  /\ task'[t].calls = <<"findOne", "getTxOut">>

C16_StatusGuard == [][C16Step]_vars

C16_Witness ==
  \E t, u \in Tasks :
    /\ t # u
    /\ task[t].op = "takeOrder" /\ task[u].op = "takeOrder"
    /\ task[t].order.orderStatus = ""
    /\ task[t].order.id = 1
    /\ task[t].pc = "getTxOut"
    /\ task[u].order.orderStatus = ""
    /\ task[u].result = "partialTx"

\* C17: in ensureFunds the P2WDB fee check comes first: when it returns false
\* the call fails with the P2WDB funds error, for sell and buy orders alike,
\* and getBalance is not called; getBalance is called only after the fee
\* check returned true.
FeeChecked(t) ==
  /\ task[t].op \in {"ensureFunds", "takeOrder"}
  /\ task[t].wdbSeen # "none"

C17_FeeCheckFirst ==
  \A t \in Tasks :
    /\ (FeeChecked(t) /\ task[t].wdbSeen = "false") =>
         /\ task[t].pc = "failed"
         /\ task[t].error = ErrP2wdbFunds
         /\ task[t].result = "none"
         /\ task[t].calls[Len(task[t].calls)] = "checkForSufficientFunds"
    /\ (\E i \in 1..Len(task[t].calls) : task[t].calls[i] = "getBalance") =>
         task[t].wdbSeen = "true"
    /\ task[t].error \in {ErrBuy, ErrBchFunds} => task[t].wdbSeen = "true"

C17_Witness ==
  \E t, u \in Tasks :
    /\ FeeChecked(t) /\ FeeChecked(u)
    /\ task[t].order.buyOrSell = Sell /\ task[u].order.buyOrSell = Buy
    /\ task[t].error = ErrP2wdbFunds /\ task[u].error = ErrP2wdbFunds

\* C18: when the UTXO is live and the validator rejects the payload,
\* createOrder fails with ValidationError, does not call save and leaves the
\* store unchanged; when save faults, createOrder fails with PersistenceError
\* and no record is added; a fault is never answered with false.
C18Step ==
  \A t \in Tasks :
    (task[t].op = "createOrder" /\ task'[t] # task[t]) =>
      LET r == task'[t]
      IN /\ ( /\ task[t].pc = "getTxOut"
              /\ Utxo(task[t].order) \in utxoLive
              /\ ~ValidOrder([task[t].order EXCEPT !.orderStatus = "posted"]) )
            => /\ r.pc = "failed"
               /\ r.error = ErrValidation
               /\ r.result = "none"
               /\ r.calls = <<"getTxOut", "validate">>
               /\ store' = store
         /\ task[t].pc = "save" =>
              \/ /\ r.pc = "done"
                 /\ r.result = "true"
                 /\ r.error = "none"
                 /\ Len(store') = Len(store) + 1
              \/ /\ r.pc = "failed"
                 /\ r.error = ErrPersistence
                 /\ r.result = "none"
                 /\ store' = store

C18_CreateOrderFaults == [][C18Step]_vars

C18_Witness ==
  \E t, u \in Tasks :
    /\ task[t].op = "createOrder" /\ task[u].op = "createOrder"
    /\ task[t].utxoSeen = "utxo" /\ task[t].error = ErrValidation
    /\ task[u].utxoSeen = "utxo" /\ task[u].error = ErrPersistence

\* C19: every record createOrder adds to the store has orderStatus 'posted',
\* whatever orderStatus the payload came with; no createOrder call puts a
\* 'taken' record into the store.
C19Step ==
  /\ \A i \in (Len(store) + 1)..Len(store') :
       store'[i].orderStatus = "posted"
  /\ \A t \in Tasks :
       ( /\ task'[t].op = "createOrder"
         /\ task'[t].pc = "done"
         /\ task[t].pc = "save" )
       => /\ Len(store') = Len(store) + 1
          /\ store'[Len(store')].p2wdbHash = task[t].order.p2wdbHash
          /\ store'[Len(store')].orderStatus = "posted"

C19_CreatedRecordsArePosted == [][C19Step]_vars

C19_Witness ==
  \E t \in Tasks :
    /\ task[t].op = "createOrder"
    /\ task[t].result = "true"
    /\ task[t].order.buyOrSell = PayBuy.buyOrSell
    /\ PayBuy.orderStatus = "taken"
    /\ store[Len(store)].p2wdbHash = PayBuy.p2wdbHash
    /\ store[Len(store)].orderStatus = "posted"

\* C20: the store is append-only: every step adds as many records as
\* createOrder calls return true in it (one, or none), also for a payload that
\* is already stored; no step removes a record or changes the p2wdbHash,
\* utxoTxid or utxoVout of a record.
C20Step ==
  /\ Len(store') = Len(store) +
       Cardinality({t \in Tasks :
                      /\ task'[t].op = "createOrder"
                      /\ task'[t].result = "true"
                      /\ task[t].result # "true"})
  /\ \A i \in 1..Len(store) :
       /\ store'[i].id = store[i].id
       /\ store'[i].p2wdbHash = store[i].p2wdbHash
       /\ store'[i].utxoTxid = store[i].utxoTxid
       /\ store'[i].utxoVout = store[i].utxoVout

C20_StoreAppendOnly == [][C20Step]_vars

C20_Witness ==
  \E t, u \in Tasks :
    /\ t # u
    /\ task[t].op = "createOrder" /\ task[t].result = "true"
    /\ task[u].op = "createOrder" /\ task[u].result = "true"
    /\ task[t].order = task[u].order
    /\ Len(store) >= 2
    /\ SameOrderData(store[Len(store)], store[Len(store) - 1])
    /\ store[Len(store)].id # store[Len(store) - 1].id

====
